---- MODULE Spec2Model ----
(***************************************************************************)
(* A model of the LZ78-style context-tree of LZ_MIDI_data.py: build_tree   *)
(* folds symbol sequences into a frequency trie, create_sentence samples a *)
(* sentence from a forest of such tries with leaf-triggered restarts.      *)
(*                                                                         *)
(* A tree is a function from node paths to frequencies: the root is the    *)
(* empty path <<>>, the child of node p for symbol s is Append(p, s).      *)
(* Symbols are integers; 0 is the only falsy one (Python's `not symbol`).  *)
(***************************************************************************)
EXTENDS Integers, Sequences, FiniteSets, TLC

\* ------------------------------------------------------------- bounds
MaxSymbol == 2
MaxTotal == 4
MaxSongs == 2
MaxLimit == 2
MaxTrees == 2
MaxSentence == 3

\* max_depth=None (and max_steps=None): a counter that was just incremented
\* never equals it.
NoLimit == 0

Symbols == 0..MaxSymbol
Limits == {NoLimit} \cup (1..MaxLimit)
\* the songs of at most n symbols (MaxTotal bounds the symbols of a batch)
SongSet(n) == UNION {[1..k -> Symbols] : k \in 0..n}

VARIABLES
    Tree,        \* build_tree: the trie being built (path -> freq)
    data,        \* build_tree: the sequence being ingested
    pos,         \* build_tree: 1-based index of the next symbol of data
    cur_branch,  \* build_tree: the cursor (a path of Tree)
    steps,       \* build_tree: nodes created since the last step-reset
    depth,       \* build_tree: descents since the last depth-reset
    max_steps,   \* build_tree parameter
    max_depth,   \* build_tree parameter
    pc,          \* build_tree: "idle" | "loop";
                 \* create_sentence: "call" | "gen" | "draw" | "done" | "error"
    songs,       \* lz_synth_main: build_tree calls made on Tree so far
    fed,         \* lz_synth_main: symbols of the songs passed so far
    Tree0,       \* history: Tree at the entry of the build_tree call in progress
    reached,     \* history: per node, how traversal met it (Arrive/Pass/Final)
    arrived,     \* history: the node the call in progress last descended onto
    Trees,            \* create_sentence: the forest (a sequence of tries)
    sentence_length,  \* create_sentence parameter
    i,                \* create_sentence: the loop index
    cur_context,      \* create_sentence: the cursor [tree, path]
    sentence,         \* create_sentence: the symbols emitted
    leaf_restarts,    \* create_sentence: the restart counter
    sequence_lengths  \* create_sentence: the segment-length list

bvars == <<Tree, data, pos, cur_branch, steps, depth, max_steps, max_depth,
           songs, fed, Tree0, reached, arrived>>
gvars == <<Trees, sentence_length, i, cur_context, sentence, leaf_restarts,
           sequence_lengths>>
vars == <<bvars, gvars, pc>>

\* ------------------------------------------------------------- Node
Root == <<>>

\* Node.Node(0, None): a root without children.
Node0 == (Root :> 0)

\* Node.children: the nodes one symbol below p
Children(tree, p) ==
    {q \in DOMAIN tree : Len(q) = Len(p) + 1 /\ SubSeq(q, 1, Len(p)) = p}

\* Node.children_symbols
ChildrenSymbols(tree, p) == {q[Len(q)] : q \in Children(tree, p)}

find_child_by_symbol(tree, p, s) == Append(p, s)

create_child(tree, p, freq, s) == tree @@ (Append(p, s) :> freq)

is_leaf(tree, p) == ChildrenSymbols(tree, p) = {}

\* `not symbol` is false
Truthy(s) == s # 0

\* ------------------------------------------------------------- mutants of BuildStep
\* the frequency of the child descended into is incremented, not the cursor's
BuildStepCountsChild(tree, cur, st, dp, ms, md, s) ==
    IF s \in ChildrenSymbols(tree, cur)
    THEN LET d1 == dp + 1
         IN  [Tree |-> [tree EXCEPT ![find_child_by_symbol(tree, cur, s)] = @ + 1],
              cur_branch |-> IF d1 = md THEN Root
                             ELSE find_child_by_symbol(tree, cur, s),
              steps |-> st,
              depth |-> IF d1 = md THEN 0 ELSE d1]
    ELSE LET s1 == st + 1
         IN  [Tree |-> create_child(tree, cur, 1, s),
              cur_branch |-> IF s1 = ms THEN Root
                             ELSE find_child_by_symbol(tree, cur, s),
              steps |-> IF s1 = ms THEN 0 ELSE s1,
              depth |-> dp]

\* a step-reset also clears depth
BuildStepResetsBoth(tree, cur, st, dp, ms, md, s) ==
    IF s \in ChildrenSymbols(tree, cur)
    THEN LET d1 == dp + 1
         IN  [Tree |-> [tree EXCEPT ![cur] = @ + 1],
              cur_branch |-> IF d1 = md THEN Root
                             ELSE find_child_by_symbol(tree, cur, s),
              steps |-> st,
              depth |-> IF d1 = md THEN 0 ELSE d1]
    ELSE LET s1 == st + 1
         IN  [Tree |-> create_child(tree, cur, 1, s),
              cur_branch |-> IF s1 = ms THEN Root
                             ELSE find_child_by_symbol(tree, cur, s),
              steps |-> IF s1 = ms THEN 0 ELSE s1,
              depth |-> IF s1 = ms THEN 0 ELSE dp]

\* the step-reset compares steps before it is incremented
BuildStepLateReset(tree, cur, st, dp, ms, md, s) ==
    IF s \in ChildrenSymbols(tree, cur)
    THEN LET d1 == dp + 1
         IN  [Tree |-> [tree EXCEPT ![cur] = @ + 1],
              cur_branch |-> IF d1 = md THEN Root
                             ELSE find_child_by_symbol(tree, cur, s),
              steps |-> st,
              depth |-> IF d1 = md THEN 0 ELSE d1]
    ELSE LET s1 == st + 1
         IN  [Tree |-> create_child(tree, cur, 1, s),
              cur_branch |-> IF st = ms THEN Root
                             ELSE find_child_by_symbol(tree, cur, s),
              steps |-> IF st = ms THEN 0 ELSE s1,
              depth |-> dp]

\* a creation never returns the cursor to the root
BuildStepNoReset(tree, cur, st, dp, ms, md, s) ==
    IF s \in ChildrenSymbols(tree, cur)
    THEN LET d1 == dp + 1
         IN  [Tree |-> [tree EXCEPT ![cur] = @ + 1],
              cur_branch |-> IF d1 = md THEN Root
                             ELSE find_child_by_symbol(tree, cur, s),
              steps |-> st,
              depth |-> IF d1 = md THEN 0 ELSE d1]
    ELSE [Tree |-> create_child(tree, cur, 1, s),
          cur_branch |-> find_child_by_symbol(tree, cur, s),
          steps |-> st + 1,
          depth |-> dp]

\* a node is created with frequency 0
BuildStepZeroFreq(tree, cur, st, dp, ms, md, s) ==
    IF s \in ChildrenSymbols(tree, cur)
    THEN LET d1 == dp + 1
         IN  [Tree |-> [tree EXCEPT ![cur] = @ + 1],
              cur_branch |-> IF d1 = md THEN Root
                             ELSE find_child_by_symbol(tree, cur, s),
              steps |-> st,
              depth |-> IF d1 = md THEN 0 ELSE d1]
    ELSE LET s1 == st + 1
         IN  [Tree |-> create_child(tree, cur, 0, s),
              cur_branch |-> IF s1 = ms THEN Root
                             ELSE find_child_by_symbol(tree, cur, s),
              steps |-> IF s1 = ms THEN 0 ELSE s1,
              depth |-> dp]

\* a descent counts the symbol at the cursor and at the child
BuildStepCountsBoth(tree, cur, st, dp, ms, md, s) ==
    IF s \in ChildrenSymbols(tree, cur)
    THEN LET d1 == dp + 1
             child == find_child_by_symbol(tree, cur, s)
         IN  [Tree |-> [tree EXCEPT ![cur] = @ + 1, ![child] = @ + 1],
              cur_branch |-> IF d1 = md THEN Root ELSE child,
              steps |-> st,
              depth |-> IF d1 = md THEN 0 ELSE d1]
    ELSE LET s1 == st + 1
         IN  [Tree |-> create_child(tree, cur, 1, s),
              cur_branch |-> IF s1 = ms THEN Root
                             ELSE find_child_by_symbol(tree, cur, s),
              steps |-> IF s1 = ms THEN 0 ELSE s1,
              depth |-> dp]

\* depth is compared with max_depth before it is incremented
BuildStepDepthLate(tree, cur, st, dp, ms, md, s) ==
    IF s \in ChildrenSymbols(tree, cur)
    THEN [Tree |-> [tree EXCEPT ![cur] = @ + 1],
          cur_branch |-> IF dp = md /\ md # NoLimit THEN Root
                         ELSE find_child_by_symbol(tree, cur, s),
          steps |-> st,
          depth |-> IF dp = md /\ md # NoLimit THEN 0 ELSE dp + 1]
    ELSE LET s1 == st + 1
         IN  [Tree |-> create_child(tree, cur, 1, s),
              cur_branch |-> IF s1 = ms THEN Root
                             ELSE find_child_by_symbol(tree, cur, s),
              steps |-> IF s1 = ms THEN 0 ELSE s1,
              depth |-> dp]

\* ------------------------------------------------------------- build_tree
\* One iteration of the for loop on a truthy symbol s: the if/else of
\* lines 19-31, from the locals before to the locals after.
BuildStep(tree, cur, st, dp, ms, md, s) ==
    IF s \in ChildrenSymbols(tree, cur)
    THEN LET d1 == dp + 1
         IN  [Tree |-> [tree EXCEPT ![cur] = @ + 1],
              cur_branch |-> IF d1 = md THEN Root
                             ELSE find_child_by_symbol(tree, cur, s),
              steps |-> st,
              depth |-> IF d1 = md THEN 0 ELSE d1]
    ELSE LET s1 == st + 1
         IN  [Tree |-> create_child(tree, cur, 1, s),
              cur_branch |-> IF s1 = ms THEN Root
                             ELSE find_child_by_symbol(tree, cur, s),
              steps |-> IF s1 = ms THEN 0 ELSE s1,
              depth |-> dp]

\* The whole call build_tree(d, tree, ms, md): the locals after the loop.
RECURSIVE BuildLoop(_, _, _, _, _, _, _, _)
BuildLoop(d, k, tree, cur, st, dp, ms, md) ==
    IF k > Len(d) \/ ~Truthy(d[k])
    THEN [Tree |-> tree, cur_branch |-> cur, steps |-> st, depth |-> dp]
    ELSE LET r == BuildStep(tree, cur, st, dp, ms, md, d[k])
         IN  BuildLoop(d, k + 1, r.Tree, r.cur_branch, r.steps, r.depth, ms, md)

build_tree(d, tree, ms, md) == BuildLoop(d, 1, tree, Root, 0, 0, ms, md).Tree

\* ------------------------------------------------------------- history
NoVisits == [arrive |-> 0, pass |-> 0, final |-> 0]

Visits(p) == IF p \in DOMAIN reached THEN reached[p] ELSE NoVisits

\* the traversal descended onto p (created it, or p existed)
Arrive(h, p) ==
    LET v == IF p \in DOMAIN h THEN h[p] ELSE NoVisits
    IN  (p :> [v EXCEPT !.arrive = @ + 1]) @@ h

\* the traversal left p through an existing child
Pass(h, p) ==
    LET v == IF p \in DOMAIN h THEN h[p] ELSE NoVisits
    IN  (p :> [v EXCEPT !.pass = @ + 1]) @@ h

\* a sequence ended with no symbol consumed after the descent onto p
Final(h, p) ==
    LET v == IF p \in DOMAIN h THEN h[p] ELSE NoVisits
    IN  (p :> [v EXCEPT !.final = @ + 1]) @@ h

\* ------------------------------------------------------------- create_sentence
RECURSIVE SumSeq(_)
\* sum(sequence_lengths)
SumSeq(q) == IF q = <<>> THEN 0 ELSE q[1] + SumSeq(Tail(q))

RECURSIVE SumFreq(_, _)
SumFreq(tree, nodes) ==
    IF nodes = {} THEN 0
    ELSE LET q == CHOOSE x \in nodes : TRUE
         IN  tree[q] + SumFreq(tree, nodes \ {q})

\* line 48: total_seen
total_seen(tree, p) == SumFreq(tree, Children(tree, p))

\* mutant: the draw is made among the children of the root
ChoicesFromRoot(tree, p) == ChildrenSymbols(tree, Root)

\* lines 49-51: the symbols random.choices can return, those of weight
\* freq / total_seen > 0
Choices(tree, p) ==
    {s \in ChildrenSymbols(tree, p) : tree[find_child_by_symbol(tree, p, s)] > 0}

\* line 52
Emit(sent, s) == Append(sent, s)

\* mutant: the loop index itself is appended
RunLengthIndex(k, lens) == k

\* mutant: the run is counted one too long
RunLengthPlusOne(k, lens) == k - SumSeq(lens) + 1

\* lines 42-43: the entry a restart at loop index k appends
RunLength(k, lens) == k - SumSeq(lens)

\* lz_synth_main lines 75-78: one tree from a batch of songs
RECURSIVE BuildBatch(_, _, _, _)
BuildBatch(batch, tree, ms, md) ==
    IF batch = <<>> THEN tree
    ELSE BuildBatch(Tail(batch), build_tree(Head(batch), tree, ms, md), ms, md)

\* The batches the sampled forests are built from: a song that starts with
\* a falsy symbol (an empty tree), a chain, a revisit, two songs that
\* branch, and the example of the specification.
GenBatches ==
    { << <<0, 1>> >>,
      << <<1, 2>> >>,
      << <<1, 1, 2>> >>,
      << <<1, 2>>, <<1, 3>> >>,
      << <<1, 2, 1, 2, 3>> >> }

GenTrees(ms, md) == {BuildBatch(b, Node0, ms, md) : b \in GenBatches}

Forests(ms, md) == UNION {[1..n -> GenTrees(ms, md)] : n \in 0..MaxTrees}

CursorTree == Trees[cur_context.tree]

\* every symbol that labels a node of the forest
ForestSymbols ==
    UNION {{q[Len(q)] : q \in DOMAIN Trees[t] \ {Root}} : t \in 1..Len(Trees)}

\* ------------------------------------------------------------- build actions
Init ==
    /\ Tree = Node0
    /\ data = <<>>
    /\ pos = 1
    /\ cur_branch = Root
    /\ steps = 0
    /\ depth = 0
    /\ max_steps \in Limits
    /\ max_depth \in Limits
    /\ pc = "idle"
    /\ songs = 0
    /\ fed = 0
    /\ Tree0 = Node0
    /\ reached = (Root :> NoVisits)
    /\ arrived = Root
    /\ Trees = <<>>
    /\ sentence_length = 0
    /\ i = 0
    /\ cur_context = [tree |-> 0, path |-> Root]
    /\ sentence = <<>>
    /\ leaf_restarts = 0
    /\ sequence_lengths = <<>>

\* mutant: the locals of the previous call survive into the next one
BuildCallKeepsLocals(notes) ==
    /\ pc = "idle"
    /\ songs < MaxSongs
    /\ fed + Len(notes) <= MaxTotal
    /\ data' = notes
    /\ pos' = 1
    /\ pc' = "loop"
    /\ songs' = songs + 1
    /\ fed' = fed + Len(notes)
    /\ Tree0' = Tree
    /\ arrived' = cur_branch
    /\ UNCHANGED <<Tree, cur_branch, steps, depth, max_steps, max_depth,
                   reached, gvars>>

\* lz_synth_main line 77 and build_tree lines 13-15: the next song of the
\* batch is passed to build_tree, which sets up its locals.
BuildCall(notes) ==
    /\ pc = "idle"
    /\ songs < MaxSongs
    /\ fed + Len(notes) <= MaxTotal
    /\ data' = notes
    /\ pos' = 1
    /\ cur_branch' = Root
    /\ steps' = 0
    /\ depth' = 0
    /\ pc' = "loop"
    /\ songs' = songs + 1
    /\ fed' = fed + Len(notes)
    /\ Tree0' = Tree
    /\ arrived' = Root
    /\ UNCHANGED <<Tree, max_steps, max_depth, reached, gvars>>

\* mutant: `continue` instead of `return`
BuildAbortSkips ==
    /\ pc = "loop"
    /\ pos <= Len(data)
    /\ ~Truthy(data[pos])
    /\ pos' = pos + 1
    /\ UNCHANGED <<Tree, data, cur_branch, steps, depth, max_steps, max_depth,
                   pc, songs, fed, Tree0, reached, arrived, gvars>>

\* lines 17-18: a falsy symbol ends the call.
BuildAbort ==
    /\ pc = "loop"
    /\ pos <= Len(data)
    /\ ~Truthy(data[pos])
    /\ pc' = "returned"
    /\ reached' = Final(reached, arrived)
    /\ UNCHANGED <<Tree, data, pos, cur_branch, steps, depth, max_steps,
                   max_depth, songs, fed, Tree0, arrived, gvars>>

\* lines 19-25: the symbol is a child of the cursor.
BuildDescend ==
    /\ pc = "loop"
    /\ pos <= Len(data)
    /\ Truthy(data[pos])
    /\ data[pos] \in ChildrenSymbols(Tree, cur_branch)
    /\ LET r == BuildStep(Tree, cur_branch, steps, depth, max_steps, max_depth,
                          data[pos])
       IN  /\ Tree' = r.Tree
           /\ cur_branch' = r.cur_branch
           /\ steps' = r.steps
           /\ depth' = r.depth
    /\ pos' = pos + 1
    /\ reached' = Arrive(Pass(reached, cur_branch), Append(cur_branch, data[pos]))
    /\ arrived' = Append(cur_branch, data[pos])
    /\ UNCHANGED <<data, max_steps, max_depth, pc, songs, fed, Tree0, gvars>>

\* lines 26-31: the symbol is not a child of the cursor.
BuildCreate ==
    /\ pc = "loop"
    /\ pos <= Len(data)
    /\ Truthy(data[pos])
    /\ data[pos] \notin ChildrenSymbols(Tree, cur_branch)
    /\ LET r == BuildStep(Tree, cur_branch, steps, depth, max_steps, max_depth,
                          data[pos])
       IN  /\ Tree' = r.Tree
           /\ cur_branch' = r.cur_branch
           /\ steps' = r.steps
           /\ depth' = r.depth
    /\ pos' = pos + 1
    /\ reached' = Arrive(reached, Append(cur_branch, data[pos]))
    /\ arrived' = Append(cur_branch, data[pos])
    /\ UNCHANGED <<data, max_steps, max_depth, pc, songs, fed, Tree0, gvars>>

\* line 16: data is exhausted, the call returns.
BuildReturn ==
    /\ pc = "loop"
    /\ pos > Len(data)
    /\ pc' = "returned"
    /\ reached' = Final(reached, arrived)
    /\ UNCHANGED <<Tree, data, pos, cur_branch, steps, depth, max_steps,
                   max_depth, songs, fed, Tree0, arrived, gvars>>

\* lz_synth_main line 76: back in the loop over the batch; the argument of
\* the call that returned is dropped (the other locals of build_tree keep
\* their last values here until lines 13-15 overwrite them).
NextSong ==
    /\ pc = "returned"
    /\ pc' = "idle"
    /\ data' = <<>>
    /\ pos' = 1
    /\ Tree0' = Tree
    /\ UNCHANGED <<Tree, cur_branch, steps, depth, max_steps, max_depth, songs,
                   fed, reached, arrived, gvars>>

Next ==
    \/ \E notes \in SongSet(MaxTotal - fed) : BuildCall(notes)
    \/ BuildAbort
    \/ BuildDescend
    \/ BuildCreate
    \/ BuildReturn
    \/ NextSong

Spec == Init /\ [][Next]_vars

\* ------------------------------------------------------------- sampling actions
\* create_sentence(Trees, sentence_length) has just been called on a forest
\* that lz_synth_main built with steps = max_steps and max_depth.
InitGen ==
    /\ Tree = Node0
    /\ data = <<>>
    /\ pos = 1
    /\ cur_branch = Root
    /\ steps = 0
    /\ depth = 0
    /\ max_steps \in Limits
    /\ max_depth \in Limits
    /\ pc = "call"
    /\ songs = 0
    /\ fed = 0
    /\ Tree0 = Node0
    /\ reached = (Root :> NoVisits)
    /\ arrived = Root
    /\ Trees \in Forests(max_steps, max_depth)
    /\ sentence_length \in 0..MaxSentence
    /\ i = 0
    /\ cur_context = [tree |-> 0, path |-> Root]
    /\ sentence = <<>>
    /\ leaf_restarts = 0
    /\ sequence_lengths = <<>>

\* mutant: an empty forest yields an empty result
GenEmptyReturns ==
    /\ pc = "call"
    /\ Trees = <<>>
    /\ pc' = "done"
    /\ UNCHANGED <<bvars, gvars>>

\* line 35 on an empty forest: random.choice([]) raises IndexError.
GenEmpty ==
    /\ pc = "call"
    /\ Trees = <<>>
    /\ pc' = "error"
    /\ UNCHANGED <<bvars, gvars>>

\* lines 35-38
GenStart(t) ==
    /\ pc = "call"
    /\ t \in 1..Len(Trees)
    /\ cur_context' = [tree |-> t, path |-> Root]
    /\ sentence' = <<>>
    /\ leaf_restarts' = 0
    /\ sequence_lengths' = <<>>
    /\ i' = 0
    /\ pc' = "gen"
    /\ UNCHANGED <<bvars, Trees, sentence_length>>

\* lines 39-46: the cursor is on a leaf.
Restart(t) ==
    /\ pc = "gen"
    /\ i < sentence_length
    /\ is_leaf(CursorTree, cur_context.path)
    /\ t \in 1..Len(Trees)
    /\ leaf_restarts' = leaf_restarts + 1
    /\ sequence_lengths' = Append(sequence_lengths, RunLength(i, sequence_lengths))
    /\ cur_context' = [tree |-> t, path |-> Root]
    /\ pc' = "draw"
    /\ UNCHANGED <<bvars, Trees, sentence_length, i, sentence>>

\* lines 39-40: the cursor is not on a leaf.
NoRestart ==
    /\ pc = "gen"
    /\ i < sentence_length
    /\ ~is_leaf(CursorTree, cur_context.path)
    /\ pc' = "draw"
    /\ UNCHANGED <<bvars, gvars>>

\* mutant: the draw counts the child it follows
DrawCounting(s) ==
    /\ pc = "draw"
    /\ total_seen(CursorTree, cur_context.path) > 0
    /\ s \in ChildrenSymbols(CursorTree, cur_context.path)
    /\ sentence' = Append(sentence, s)
    /\ cur_context' = [cur_context EXCEPT !.path = Append(@, s)]
    /\ Trees' = [Trees EXCEPT ![cur_context.tree] =
                    [@ EXCEPT ![Append(cur_context.path, s)] = @ + 1]]
    /\ i' = i + 1
    /\ pc' = "gen"
    /\ UNCHANGED <<bvars, sentence_length, leaf_restarts, sequence_lengths>>

\* lines 47-53: a symbol is drawn, emitted and followed.
Draw(s) ==
    /\ pc = "draw"
    /\ total_seen(CursorTree, cur_context.path) > 0
    /\ s \in Choices(CursorTree, cur_context.path)
    /\ sentence' = Emit(sentence, s)
    /\ cur_context' = [cur_context EXCEPT
                         !.path = find_child_by_symbol(CursorTree, @, s)]
    /\ i' = i + 1
    /\ pc' = "gen"
    /\ UNCHANGED <<bvars, Trees, sentence_length, leaf_restarts, sequence_lengths>>

\* lines 47-51 on a node without children: random.choices([], []) raises
\* IndexError.
DrawFail ==
    /\ pc = "draw"
    /\ ChildrenSymbols(CursorTree, cur_context.path) = {}
    /\ pc' = "error"
    /\ UNCHANGED <<bvars, gvars>>

\* line 54
GenReturn ==
    /\ pc = "gen"
    /\ i >= sentence_length
    /\ pc' = "done"
    /\ UNCHANGED <<bvars, gvars>>

NextGen ==
    \/ GenEmpty
    \/ \E t \in 1..MaxTrees : GenStart(t)
    \/ \E t \in 1..MaxTrees : Restart(t)
    \/ NoRestart
    \/ \E s \in ForestSymbols : Draw(s)
    \/ DrawFail
    \/ GenReturn

SpecGen == InitGen /\ [][NextGen]_vars

\* ------------------------------------------------------------- distinct symbols
MaxDistinct == 5

\* the sequences of pairwise-distinct truthy symbols
DistinctSongs ==
    {d \in UNION {[1..n -> 1..MaxDistinct] : n \in 0..MaxDistinct} :
        \A a, b \in DOMAIN d : a # b => d[a] # d[b]}

\* build_tree(data, Node.Node(0, None), max_steps=k, max_depth=None) has just
\* been entered with pairwise-distinct truthy symbols.
InitDistinct ==
    /\ Tree = Node0
    /\ data \in DistinctSongs
    /\ pos = 1
    /\ cur_branch = Root
    /\ steps = 0
    /\ depth = 0
    /\ max_steps \in 1..MaxLimit
    /\ max_depth = NoLimit
    /\ pc = "loop"
    /\ songs = 1
    /\ fed = Len(data)
    /\ Tree0 = Node0
    /\ reached = (Root :> NoVisits)
    /\ arrived = Root
    /\ Trees = <<>>
    /\ sentence_length = 0
    /\ i = 0
    /\ cur_context = [tree |-> 0, path |-> Root]
    /\ sentence = <<>>
    /\ leaf_restarts = 0
    /\ sequence_lengths = <<>>

NextDistinct ==
    \/ BuildCreate
    \/ BuildReturn

SpecDistinct == InitDistinct /\ [][NextDistinct]_vars

\* ------------------------------------------------------------- phrase parsing
MaxPhraseLen == 5
MaxPhraseSymbol == 3

\* the sequences of truthy symbols, repeats allowed
PhraseSongs == UNION {[1..n -> 1..MaxPhraseSymbol] : n \in 0..MaxPhraseLen}

\* build_tree(data, Node.Node(0, None)) has just been entered with the
\* defaults of line 11, max_steps=1 and max_depth=None.
InitPhrase ==
    /\ Tree = Node0
    /\ data \in PhraseSongs
    /\ pos = 1
    /\ cur_branch = Root
    /\ steps = 0
    /\ depth = 0
    /\ max_steps = 1
    /\ max_depth = NoLimit
    /\ pc = "loop"
    /\ songs = 1
    /\ fed = Len(data)
    /\ Tree0 = Node0
    /\ reached = (Root :> NoVisits)
    /\ arrived = Root
    /\ Trees = <<>>
    /\ sentence_length = 0
    /\ i = 0
    /\ cur_context = [tree |-> 0, path |-> Root]
    /\ sentence = <<>>
    /\ leaf_restarts = 0
    /\ sequence_lengths = <<>>

NextPhrase ==
    \/ BuildDescend
    \/ BuildCreate
    \/ BuildReturn

SpecPhrase == InitPhrase /\ [][NextPhrase]_vars

\* ------------------------------------------------------------- claims
InGen == pc \in {"gen", "draw", "done", "error"}

\* C1 (as claimed): on a non-empty forest create_sentence never fails and
\* returns exactly sentence_length symbols.
C1_GenerateCompletes ==
    Trees # <<>> =>
        /\ pc # "error"
        /\ pc = "done" => Len(sentence) = sentence_length

\* C2 (as claimed): the entries of the returned segment-length list sum to
\* the number of symbols emitted (the trailing open run is in the list).
C2_SegmentsSumToEmitted ==
    pc = "done" => SumSeq(sequence_lengths) = Len(sentence)

\* C2 (amended): the list holds one entry per restart and covers only the
\* runs a restart closed: its entries sum to the symbols emitted before the
\* last restart, and the trailing open run, whose length is the depth of the
\* cursor in its tree, is not in the list.
C2_SegmentsCoverClosedRuns ==
    InGen =>
        /\ Len(sequence_lengths) = leaf_restarts
        /\ SumSeq(sequence_lengths) + Len(cur_context.path) = Len(sentence)

C2_TrailingRunOpen ==
    /\ pc = "done"
    /\ leaf_restarts >= 2
    /\ Len(cur_context.path) >= 1
    /\ SumSeq(sequence_lengths) < Len(sentence)

C4_EmitsChildSymbol ==
    /\ [][sentence' # sentence /\ pc # "call" =>
            \E s \in ChildrenSymbols(CursorTree, cur_context.path) :
                /\ sentence' = Append(sentence, s)
                /\ cur_context' = [tree |-> cur_context.tree,
                                   path |-> Append(cur_context.path, s)]
                /\ cur_context'.path \in DOMAIN CursorTree]_vars
    /\ [](\A k \in DOMAIN sentence : sentence[k] \in ForestSymbols)

C4_DeepDraw ==
    /\ pc = "done"
    /\ Len(sentence) = 3
    /\ Len(cur_context.path) = 2
    /\ leaf_restarts = 1

\* C5 (as claimed, read in its favour): after ingestion the frequency of a
\* non-root node is the number of times traversal descended onto it (by
\* creating it or by revisiting it), less at most the times it was the last
\* node a sequence reached (the final unconsumed position).
C5_FreqEqualsReached ==
    pc \in {"idle", "returned"} =>
        \A p \in DOMAIN Tree \ {Root} :
            /\ Tree[p] <= Visits(p).arrive
            /\ Tree[p] >= Visits(p).arrive - Visits(p).final

\* C5 (amended): the frequency of a node is its initial value (1 for a node
\* build_tree created, 0 for the root) plus the number of times traversal
\* left it by descending into an existing child.
C5_FreqCountsPasses ==
    \A p \in DOMAIN Tree :
        Tree[p] = (IF p = Root THEN 0 ELSE 1) + Visits(p).pass

C5_ReachedMoreThanFreq ==
    /\ pc = "returned"
    /\ Tree[Root] >= 1
    /\ \E p \in DOMAIN Tree \ {Root} :
           /\ Visits(p).arrive >= 2
           /\ Visits(p).final = 0
           /\ Tree[p] = 1

\* the index of the first falsy symbol of d, Len(d) + 1 when there is none
FirstFalsy(d) ==
    IF \E k \in DOMAIN d : ~Truthy(d[k])
    THEN CHOOSE k \in DOMAIN d :
             /\ ~Truthy(d[k])
             /\ \A j \in 1..(k - 1) : Truthy(d[j])
    ELSE Len(d) + 1

\* C6: the loop never reads past the first falsy symbol; the call returns
\* there (without raising) and leaves the tree that ingesting only the
\* symbols before it yields.
C6_FalsyTruncates ==
    /\ pc = "loop" => pos <= FirstFalsy(data)
    /\ pc = "returned" =>
        /\ pos = FirstFalsy(data)
        /\ Tree = build_tree(SubSeq(data, 1, FirstFalsy(data) - 1), Tree0,
                             max_steps, max_depth)

C6_SymbolsAfterFalsyIgnored ==
    /\ pc = "returned"
    /\ 1 < pos
    /\ pos < Len(data)
    /\ Truthy(data[pos + 1])
    /\ Tree # Tree0

\* C7: on an empty forest create_sentence fails before any sampling step,
\* whatever the length: nothing is emitted, counted or returned.
C7_EmptyForestFatal ==
    Trees = <<>> /\ pc \notin {"idle", "loop", "returned"} =>
        /\ pc \in {"call", "error"}
        /\ sentence = <<>>
        /\ leaf_restarts = 0
        /\ sequence_lengths = <<>>
        /\ i = 0

C7_EmptyForestFailed ==
    /\ Trees = <<>>
    /\ pc = "error"
    /\ sentence_length = 0

\* C8: no step of create_sentence changes the forest.
C8_ForestUnchanged == [][Trees' = Trees]_vars

C8_SampledAcrossRestart ==
    /\ pc = "done"
    /\ Len(sentence) = MaxSentence
    /\ leaf_restarts >= 1
    /\ Len(Trees) = 2
    /\ Trees[1] # Trees[2]

\* C9: a step-reset moves the cursor to the root, clears steps and leaves
\* depth alone; a depth-reset moves the cursor to the root, clears depth and
\* leaves steps alone; an unset threshold never resets.
C9_ResetsIndependent ==
    [][pc = "loop" /\ pos' = pos + 1 =>
          LET s == data[pos]
              child == find_child_by_symbol(Tree, cur_branch, s)
          IN  IF s \in ChildrenSymbols(Tree, cur_branch)
              THEN /\ steps' = steps
                   /\ IF max_depth # NoLimit /\ depth + 1 = max_depth
                      THEN cur_branch' = Root /\ depth' = 0
                      ELSE cur_branch' = child /\ depth' = depth + 1
              ELSE /\ depth' = depth
                   /\ IF max_steps # NoLimit /\ steps + 1 = max_steps
                      THEN cur_branch' = Root /\ steps' = 0
                      ELSE cur_branch' = child /\ steps' = steps + 1]_vars

C9_StepResetKeptDepth ==
    /\ pc = "loop"
    /\ pos > 1
    /\ cur_branch = Root
    /\ steps = 0
    /\ depth > 0
    /\ max_depth # NoLimit

\* C10: with max_depth unset and max_steps = k, n pairwise-distinct truthy
\* symbols ingested into an empty tree leave the i-th symbol as a node at
\* depth ((i-1) mod k) + 1 below the symbols of its group, ceil(n/k) children
\* of the root and no node deeper than k.
C10_DistinctSymbolsGrouped ==
    pc = "returned" =>
        LET n == Len(data)
            k == max_steps
        IN  /\ \A j \in 1..n :
                   SubSeq(data, j - ((j - 1) % k), j) \in DOMAIN Tree
            /\ Cardinality(DOMAIN Tree) = n + 1
            /\ Cardinality(Children(Tree, Root)) = (n + k - 1) \div k
            /\ \A p \in DOMAIN Tree : Len(p) <= k

C10_FiveSymbolsTwoSteps ==
    /\ pc = "returned"
    /\ max_steps = 2
    /\ Len(data) = 5
    /\ Cardinality(Children(Tree, Root)) = 3
    /\ Cardinality({p \in DOMAIN Tree : Len(p) = 2}) = 2

\* C11: with max_steps = 1 and max_depth unset build_tree parses LZ78
\* phrases: a symbol that is a child of the cursor adds 1 to the cursor
\* node's frequency, leaves the child's alone and descends; any other
\* symbol attaches a node of frequency 1 under the cursor, which is the
\* path matched since the last creation, and returns the cursor to the
\* root; the cursor is at the root at no other time.  [1,2,1,2,3] on an
\* empty tree gives root:1, 1:1, 2:1, 3:1 and 1/2:1.
C11_PhraseParse ==
    /\ [][pc = "loop" /\ pos' = pos + 1 =>
             LET s == data[pos]
                 child == find_child_by_symbol(Tree, cur_branch, s)
             IN  IF child \in DOMAIN Tree
                 THEN /\ Tree' = [Tree EXCEPT ![cur_branch] = @ + 1]
                      /\ Tree'[child] = Tree[child]
                      /\ cur_branch' = child
                      /\ cur_branch' # Root
                 ELSE /\ Tree' = (child :> 1) @@ Tree
                      /\ cur_branch' = Root]_vars
    /\ [](/\ steps = 0
          /\ cur_branch \in DOMAIN Tree
          /\ Len(cur_branch) < pos
          /\ cur_branch = SubSeq(data, pos - Len(cur_branch), pos - 1)
          /\ (pc = "returned" /\ data = <<1, 2, 1, 2, 3>> =>
                 Tree = (Root :> 1) @@ (<<1>> :> 1) @@ (<<2>> :> 1)
                        @@ (<<3>> :> 1) @@ (<<1, 2>> :> 1)))

C11_ExampleParsed ==
    /\ pc = "returned"
    /\ data = <<1, 2, 1, 2, 3>>
    /\ Tree[Root] = 1
    /\ <<1, 2>> \in DOMAIN Tree

\* C12: every build_tree call starts with the cursor at the root, steps = 0
\* and depth = 0 whatever the previous call left behind, and the tree only
\* grows: no step removes a node or lowers a frequency, so the tree a call
\* was entered with is contained in the tree at any later point of the call.
C12_CallsResetAndGrow ==
    /\ [][/\ pc = "idle" /\ pc' = "loop" =>
                /\ cur_branch' = Root
                /\ steps' = 0
                /\ depth' = 0
                /\ pos' = 1
                /\ Tree' = Tree
           /\ DOMAIN Tree \subseteq DOMAIN Tree'
           /\ \A p \in DOMAIN Tree : Tree'[p] >= Tree[p]]_vars
    /\ [](/\ DOMAIN Tree0 \subseteq DOMAIN Tree
          /\ \A p \in DOMAIN Tree0 : Tree[p] >= Tree0[p])

\* a second call has grown a tree whose first call ended below the root
\* with steps > 0
C12_SecondCallGrew ==
    /\ pc = "returned"
    /\ songs = 2
    /\ max_steps = NoLimit
    /\ Tree0 # Node0
    /\ DOMAIN Tree # DOMAIN Tree0
    /\ Tree[Root] > Tree0[Root]

\* C13: in every state of ingestion every non-root node has frequency >= 1;
\* hence at every node that has children, which is where a sampling step
\* draws, total_seen >= 1 (the weights freq / total_seen are defined) and
\* every child has a positive weight, so every child can be drawn.
C13_WeightsDefined ==
    /\ \A p \in DOMAIN Tree \ {Root} : Tree[p] >= 1
    /\ \A p \in DOMAIN Tree :
           ~is_leaf(Tree, p) =>
               /\ total_seen(Tree, p) >= 1
               /\ Choices(Tree, p) = ChildrenSymbols(Tree, p)

\* a node below the root with two children, each of weight 1/2
C13_BranchingNode ==
    \E p \in DOMAIN Tree \ {Root} :
        /\ Cardinality(Choices(Tree, p)) = 2
        /\ total_seen(Tree, p) = 2

\* the sum of the frequencies of all nodes, root included
TotalFreq(tree) == SumFreq(tree, DOMAIN tree)

RECURSIVE SumArrive(_, _)
SumArrive(h, nodes) ==
    IF nodes = {} THEN 0
    ELSE LET q == CHOOSE x \in nodes : TRUE
         IN  h[q].arrive + SumArrive(h, nodes \ {q})

\* the symbols consumed by all calls so far: each iteration of the loop
\* that gets past line 18 moves the cursor onto one node
Consumed == SumArrive(reached, DOMAIN reached)

\* C14: on a tree whose root was created with frequency 0 the frequencies
\* of all nodes add up to the number of symbols consumed so far; inside a
\* call that is the sum at entry plus the symbols read, and a call that
\* has returned has read the symbols before the first falsy one.
C14_FreqSumIsConsumed ==
    /\ TotalFreq(Tree) = Consumed
    /\ TotalFreq(Tree) <= fed
    /\ pc \in {"loop", "returned"} =>
           TotalFreq(Tree) = TotalFreq(Tree0) + (pos - 1)
    /\ pc = "returned" => pos = FirstFalsy(data)

\* two calls, one symbol left unread after a falsy one, both kinds of
\* contribution present
C14_TwoCallsCounted ==
    /\ pc = "returned"
    /\ songs = 2
    /\ TotalFreq(Tree) = 3
    /\ fed = 4
    /\ Tree[Root] >= 1
    /\ Cardinality(DOMAIN Tree) >= 3

\* the depth of the deepest node
Height(tree) == CHOOSE h \in 0..Cardinality(DOMAIN tree) :
                    /\ \E p \in DOMAIN tree : Len(p) = h
                    /\ \A p \in DOMAIN tree : Len(p) <= h

\* k + 1 pairwise-distinct symbols: every one of them creates a node
Chain(k) == [j \in 1..(k + 1) |-> j]

\* the symbols 1..k, the same again, then a new one: k creations, k
\* descents along them, one creation below
Revisit(k) == [j \in 1..(2 * k + 1) |->
                  IF j <= k THEN j ELSE IF j <= 2 * k THEN j - k ELSE k + 1]

\* C15: with max_steps = s and max_depth = d both set no node lies deeper
\* than s + d - 1 and the cursor is no deeper than s + d - 2 when a symbol
\* is read; with only one of them set the height is not bounded by it: an
\* empty tree about to be fed Revisit(s) under max_steps = s alone, or
\* Chain(d) under max_depth = d alone, ends higher than the threshold.
C15_HeightBound ==
    /\ max_steps # NoLimit /\ max_depth # NoLimit =>
           /\ \A p \in DOMAIN Tree : Len(p) <= max_steps + max_depth - 1
           /\ pc = "loop" => Len(cur_branch) <= max_steps + max_depth - 2
    /\ pc = "idle" /\ Tree = Node0 /\ max_steps # NoLimit /\ max_depth = NoLimit =>
           Height(build_tree(Revisit(max_steps), Tree, max_steps, max_depth))
               > max_steps
    /\ pc = "idle" /\ Tree = Node0 /\ max_steps = NoLimit /\ max_depth # NoLimit =>
           Height(build_tree(Chain(max_depth), Tree, max_steps, max_depth))
               > max_depth

\* both thresholds 2 and a node at depth 3
C15_BoundAttained ==
    /\ max_steps = 2
    /\ max_depth = 2
    /\ Height(Tree) = 3
    /\ Tree[Root] >= 1

====
